---- MODULE Spec2Model ----
(***************************************************************************)
(* Model of samples/rust/agent_registry.rs: AgentRegistry, a registry of   *)
(* agent definitions held in two independently locked maps:                *)
(*   agents           : RwLock<HashMap<String, AgentDefinition>>           *)
(*   capability_index : RwLock<HashMap<Capability, Vec<String>>>           *)
(* Threads call register / get / find_by_capability /                      *)
(* get_best_for_capability / unregister / list_ids / count concurrently.   *)
(* An action is one step of one call: the acquisition of a lock, or the    *)
(* critical section that ends with the release of the lock(s) it holds.    *)
(* No critical section can panic, so no lock is ever poisoned and          *)
(* RegistryError::LockPoisoned is never returned; InvalidDefinition is     *)
(* never constructed.                                                      *)
(***************************************************************************)
EXTENDS Integers, Sequences, FiniteSets, TLC

\* ---------------------------------------------------------------- bounds
NThreads == 2
MaxCalls == 3
MaxPriority == 2

Threads == 1..NThreads
Ids == {"a", "b"}
Caps == {"X", "Y"}
\* capability lists a caller may pass: empty, single, several, and a repeated value
CapLists == {<<>>, <<"X">>, <<"Y", "X">>, <<"X", "X">>}

NoThread == 0

\* ----------------------------------------------------------- data model
AgentDefinition(id, priority, capabilities) ==
    [id |-> id, priority |-> priority, capabilities |-> capabilities]

Definitions ==
    {AgentDefinition(i, p, cl) : i \in Ids, p \in 1..MaxPriority, cl \in CapLists}

Range(s) == {s[k] : k \in DOMAIN s}

has_capability(a, cap) == cap \in Range(a.capabilities)

EmptyMap == [k \in {} |-> 0]

NoValue == <<>>
Ok(v) == [kind |-> "Ok", val |-> v]
AgentNotFound == [kind |-> "AgentNotFound", val |-> NoValue]
AgentAlreadyExists == [kind |-> "AgentAlreadyExists", val |-> NoValue]
NoResult == [kind |-> "none", val |-> NoValue]

\* ------------------------------------------------- the maps' operations
\* mutant: insert without the contains_key check
RegisterAgentsUnchecked(ag, defn) ==
    [res |-> Ok(NoValue),
     agents |-> [k \in DOMAIN ag \cup {defn.id} |-> IF k = defn.id THEN defn ELSE ag[k]]]

\* mutant: the check is !agents.is_empty() instead of contains_key(&id)
RegisterAgentsIfEmpty(ag, defn) ==
    IF DOMAIN ag # {}
    THEN [res |-> AgentAlreadyExists, agents |-> ag]
    ELSE [res |-> Ok(NoValue), agents |-> ag @@ (defn.id :> defn)]

\* mutant: if agents.insert(id, agent).is_some() { return Err(..) }: the insert
\* replaces the stored record before the call is rejected
RegisterAgentsInsertFirst(ag, defn) ==
    [res |-> IF defn.id \in DOMAIN ag THEN AgentAlreadyExists ELSE Ok(NoValue),
     agents |-> [k \in DOMAIN ag \cup {defn.id} |-> IF k = defn.id THEN defn ELSE ag[k]]]

\* agents.contains_key(&id) / agents.insert(id, agent) under the write lock
RegisterAgents(ag, defn) ==
    IF defn.id \in DOMAIN ag
    THEN [res |-> AgentAlreadyExists, agents |-> ag]
    ELSE [res |-> Ok(NoValue), agents |-> ag @@ (defn.id :> defn)]

\* for cap in capabilities { index.entry(cap).or_insert_with(Vec::new).push(id) }
RECURSIVE RegisterIndex(_, _, _)
RegisterIndex(idx, capabilities, id) ==
    IF capabilities = <<>> THEN idx
    ELSE LET cap == Head(capabilities)
             pushed == IF cap \in DOMAIN idx
                       THEN [idx EXCEPT ![cap] = Append(@, id)]
                       ELSE idx @@ (cap :> <<id>>)
         IN RegisterIndex(pushed, Tail(capabilities), id)

\* mutant: agents.get(id).cloned() instead of agents.remove(id)
UnregisterAgentsKeep(ag, id) ==
    IF id \in DOMAIN ag
    THEN [res |-> Ok(ag[id]), agents |-> ag]
    ELSE [res |-> AgentNotFound, agents |-> ag]

\* mutant: agents.remove(id).unwrap_or_default() instead of ok_or_else(..)?
UnregisterAgentsDefault(ag, id) ==
    IF id \in DOMAIN ag
    THEN [res |-> Ok(ag[id]), agents |-> [k \in DOMAIN ag \ {id} |-> ag[k]]]
    ELSE [res |-> Ok(AgentDefinition(id, 1, <<>>)), agents |-> ag]

\* agents.remove(id).ok_or_else(AgentNotFound)
UnregisterAgents(ag, id) ==
    IF id \in DOMAIN ag
    THEN [res |-> Ok(ag[id]), agents |-> [k \in DOMAIN ag \ {id} |-> ag[k]]]
    ELSE [res |-> AgentNotFound, agents |-> ag]

\* mutant: the retain loop is left out
UnregisterIndexSkip(idx, capabilities, id) == idx

\* mutant: ids.clear() instead of ids.retain(|i| i != id)
RECURSIVE UnregisterIndexClear(_, _, _)
UnregisterIndexClear(idx, capabilities, id) ==
    IF capabilities = <<>> THEN idx
    ELSE LET cap == Head(capabilities)
             kept == IF cap \in DOMAIN idx
                     THEN [idx EXCEPT ![cap] = <<>>]
                     ELSE idx
         IN UnregisterIndexClear(kept, Tail(capabilities), id)

\* for cap in &agent.metadata.capabilities { if let Some(ids) = index.get_mut(cap) { ids.retain(|i| i != id) } }
RECURSIVE UnregisterIndex(_, _, _)
UnregisterIndex(idx, capabilities, id) ==
    IF capabilities = <<>> THEN idx
    ELSE LET cap == Head(capabilities)
             kept == IF cap \in DOMAIN idx
                     THEN [idx EXCEPT ![cap] = SelectSeq(@, LAMBDA i : i # id)]
                     ELSE idx
         IN UnregisterIndex(kept, Tail(capabilities), id)

\* agents.get(id).cloned().ok_or_else(AgentNotFound)
Get(ag, id) == IF id \in DOMAIN ag THEN Ok(ag[id]) ELSE AgentNotFound

\* mutant: .map(|id| agents.get(id).cloned().unwrap_or_default()), nothing is filtered
RECURSIVE FilterMapDefault(_, _)
FilterMapDefault(ids, ag) ==
    IF ids = <<>> THEN <<>>
    ELSE IF Head(ids) \in DOMAIN ag
         THEN <<ag[Head(ids)]>> \o FilterMapDefault(Tail(ids), ag)
         ELSE <<AgentDefinition(Head(ids), 1, <<>>)>> \o FilterMapDefault(Tail(ids), ag)

\* ids.iter().filter_map(|id| agents.get(id).cloned()).collect()
RECURSIVE FilterMap(_, _)
FilterMap(ids, ag) ==
    IF ids = <<>> THEN <<>>
    ELSE IF Head(ids) \in DOMAIN ag
         THEN <<ag[Head(ids)]>> \o FilterMap(Tail(ids), ag)
         ELSE FilterMap(Tail(ids), ag)

\* mutant: an unstable sort, x goes before the elements whose key equals its own
RECURSIVE InsertByKeyBeforeEqual(_, _)
InsertByKeyBeforeEqual(sorted, x) ==
    IF sorted = <<>> THEN <<x>>
    ELSE IF sorted[Len(sorted)].priority < x.priority
         THEN Append(sorted, x)
         ELSE Append(InsertByKeyBeforeEqual(SubSeq(sorted, 1, Len(sorted) - 1), x),
                     sorted[Len(sorted)])

\* one insertion of the stable sort: x goes after every element whose key is <= its own
RECURSIVE InsertByKey(_, _)
InsertByKey(sorted, x) ==
    IF sorted = <<>> THEN <<x>>
    ELSE IF sorted[Len(sorted)].priority <= x.priority
         THEN Append(sorted, x)
         ELSE Append(InsertByKey(SubSeq(sorted, 1, Len(sorted) - 1), x), sorted[Len(sorted)])

\* mutant: the sort is left out
SortByKeyMissing(s) == s

\* result.sort_by_key(|a| a.metadata.priority): a stable sort, ascending
RECURSIVE SortByKey(_)
SortByKey(s) ==
    IF s = <<>> THEN <<>>
    ELSE InsertByKey(SortByKey(SubSeq(s, 1, Len(s) - 1)), s[Len(s)])

\* index.get(cap).cloned().unwrap_or_default(), filter_map, sort_by_key
FindByCapability(idx, ag, cap) ==
    LET ids == IF cap \in DOMAIN idx THEN idx[cap] ELSE <<>>
    IN SortByKey(FilterMap(ids, ag))

\* mutant: .into_iter().last() instead of .next()
GetBestLast(idx, ag, cap) ==
    LET found == FindByCapability(idx, ag, cap)
    IN IF found = <<>> THEN AgentNotFound ELSE Ok(found[Len(found)])

\* find_by_capability(cap)?.into_iter().next().ok_or_else(AgentNotFound)
GetBestForCapability(idx, ag, cap) ==
    LET found == FindByCapability(idx, ag, cap)
    IN IF found = <<>> THEN AgentNotFound ELSE Ok(found[1])

\* agents.keys().cloned().collect(): the keys in an iteration order HashMap does not fix
ListIds(ag) ==
    {s \in UNION {[1..n -> DOMAIN ag] : n \in {Cardinality(DOMAIN ag)}} :
        Range(s) = DOMAIN ag}

\* agents.len()
Count(ag) == Cardinality(DOMAIN ag)


\* ---------------------------------------------------------------- state
VARIABLES
    agents,          \* AgentRegistry.agents: id -> AgentDefinition
    index,           \* AgentRegistry.capability_index: capability -> Vec of ids
    agentsWriter,    \* the thread holding agents.write(), or NoThread
    agentsReaders,   \* the threads holding agents.read()
    indexWriter,     \* the thread holding capability_index.write(), or NoThread
    indexReaders,    \* the threads holding capability_index.read()
    pc,              \* where each thread is in its current call
    op,              \* the operation of each thread's current (or last) call
    arg,             \* its argument
    agent,           \* unregister's local `agent`: the definition it removed
    result,          \* what each thread's last completed call returned
    ncalls,          \* calls made by each thread
    seenGet,         \* history: id -> capabilities a returned get(id) showed
    seenFind,        \* history: ids a returned find_by_capability showed
    expect,          \* history: ids the current read is owed, fixed when it starts
    unregOverlap,    \* history: a register(id) ran during this unregister(id) call
    gone,            \* history: id -> "no" | "clean" | "overlapped": how the last
                     \*   unregister(id) returned Ok, "no" once a register(id) starts
    registered,      \* history: id -> the definition(s) a register call put in agents
                     \*   and no unregister call has taken out since
    writerPref,      \* the RwLock implementation makes read() wait for waiting writers
    agents2,         \* a second registry's agents (calls applied one after another)
    index2,          \* a second registry's capability_index
    refAgents,       \* the atomic reference registry: id -> AgentDefinition
    refResult        \* what the reference registry returned for the last call

vars == <<agents, index, agentsWriter, agentsReaders, indexWriter, indexReaders,
          pc, op, arg, agent, result, ncalls, seenGet, seenFind, expect,
          unregOverlap, gone, registered, writerPref, agents2, index2,
          refAgents, refResult>>

locks == <<agentsWriter, agentsReaders, indexWriter, indexReaders>>
maps == <<agents, index>>
history == <<seenGet, seenFind, expect, unregOverlap, gone>>
\* what the steps of a concurrent call never touch
other == <<writerPref, agents2, index2, refAgents, refResult>>

\* AgentRegistry::new(), no call made yet
InitRegistry ==
    /\ agents = EmptyMap
    /\ index = EmptyMap
    /\ agentsWriter = NoThread
    /\ agentsReaders = {}
    /\ indexWriter = NoThread
    /\ indexReaders = {}
    /\ pc = [t \in Threads |-> "idle"]
    /\ op = [t \in Threads |-> "none"]
    /\ arg = [t \in Threads |-> NoValue]
    /\ agent = [t \in Threads |-> NoValue]
    /\ result = [t \in Threads |-> NoResult]
    /\ ncalls = [t \in Threads |-> 0]
    /\ seenGet = [i \in Ids |-> {}]
    /\ seenFind = {}
    /\ expect = [t \in Threads |-> {}]
    /\ unregOverlap = [t \in Threads |-> FALSE]
    /\ gone = [i \in Ids |-> "no"]
    /\ registered = [i \in Ids |-> {}]
    /\ agents2 = EmptyMap
    /\ index2 = EmptyMap
    /\ refAgents = EmptyMap
    /\ refResult = NoResult

\* Safety is checked with read() never waiting for a waiting writer: the
\* behaviours of a writer-preferring RwLock are among these.
Init == InitRegistry /\ writerPref = FALSE

RECURSIVE Sum(_, _)
Sum(f, S) == IF S = {} THEN 0
             ELSE LET x == CHOOSE y \in S : TRUE IN f[x] + Sum(f, S \ {x})

TotalCalls == Sum(ncalls, Threads)

Busy(t) == pc[t] # "idle"
Quiescent == \A t \in Threads : ~Busy(t)

RegisterInProgress(id) ==
    \E u \in Threads : Busy(u) /\ op[u] = "register" /\ arg[u].id = id
UnregisterInProgress(id) ==
    \E u \in Threads : Busy(u) /\ op[u] = "unregister" /\ arg[u] = id

\* threads blocked in agents.write() / capability_index.write()
AgentsWaiting == {u \in Threads : pc[u] \in {"reg_lock_agents", "unreg_lock_agents"}}
IndexWaiting == {u \in Threads : pc[u] \in {"reg_lock_index", "unreg_lock_index"}}

\* RwLock: write() needs no writer and no reader; read() needs no writer and,
\* where the implementation prefers writers, no writer waiting for the lock
CanWrite(writer, readers) == writer = NoThread /\ readers = {}
CanRead(writer, waiting) == writer = NoThread /\ (writerPref => waiting = {})

\* A thread enters a call: the bookkeeping common to every operation.
Enter(t, o, a, first) ==
    /\ pc[t] = "idle"
    /\ TotalCalls < MaxCalls
    /\ pc' = [pc EXCEPT ![t] = first]
    /\ op' = [op EXCEPT ![t] = o]
    /\ arg' = [arg EXCEPT ![t] = a]
    /\ result' = [result EXCEPT ![t] = NoResult]
    /\ ncalls' = [ncalls EXCEPT ![t] = @ + 1]
    /\ UNCHANGED <<maps, locks, agent, registered, other>>

Finish(t, r) ==
    /\ pc' = [pc EXCEPT ![t] = "idle"]
    /\ result' = [result EXCEPT ![t] = r]

\* ------------------------------------------------------------- register
CallRegister(t, a) ==
    /\ Enter(t, "register", a, "reg_lock_agents")
    /\ gone' = [gone EXCEPT ![a.id] = "no"]
    /\ unregOverlap' = [u \in Threads |->
            IF Busy(u) /\ op[u] = "unregister" /\ arg[u] = a.id
            THEN TRUE ELSE unregOverlap[u]]
    /\ expect' = [expect EXCEPT ![t] = {}]
    /\ UNCHANGED <<seenGet, seenFind>>

\* let mut agents = self.agents.write()
RegLockAgents(t) ==
    /\ pc[t] = "reg_lock_agents"
    /\ CanWrite(agentsWriter, agentsReaders)
    /\ agentsWriter' = t
    /\ pc' = [pc EXCEPT ![t] = "reg_agents"]
    /\ UNCHANGED <<maps, agentsReaders, indexWriter, indexReaders,
                   op, arg, agent, result, ncalls, history, registered, other>>

\* mutant: without the block around it the agents guard is not dropped after
\* the insert
RegAgentsHoldGuard(t) ==
    /\ pc[t] = "reg_agents"
    /\ LET r == RegisterAgents(agents, arg[t])
       IN /\ agents' = r.agents
          /\ IF r.res.kind = "Ok"
             THEN /\ pc' = [pc EXCEPT ![t] = "reg_lock_index"]
                  /\ registered' = [registered EXCEPT ![arg[t].id] = {arg[t]}]
                  /\ UNCHANGED <<result, agentsWriter>>
             ELSE /\ Finish(t, r.res)
                  /\ agentsWriter' = NoThread
                  /\ UNCHANGED registered
    /\ UNCHANGED <<index, agentsReaders, indexWriter, indexReaders,
                   op, arg, agent, ncalls, history, other>>

\* contains_key / insert, then the guard is dropped; Err returns at once
RegAgents(t) ==
    /\ pc[t] = "reg_agents"
    /\ LET r == RegisterAgents(agents, arg[t])
       IN /\ agents' = r.agents
          /\ IF r.res.kind = "Ok"
             THEN /\ pc' = [pc EXCEPT ![t] = "reg_lock_index"]
                  /\ registered' = [registered EXCEPT ![arg[t].id] = {arg[t]}]
                  /\ UNCHANGED result
             ELSE /\ Finish(t, r.res)
                  /\ UNCHANGED registered
    /\ agentsWriter' = NoThread
    /\ UNCHANGED <<index, agentsReaders, indexWriter, indexReaders,
                   op, arg, agent, ncalls, history, other>>

\* let mut index = self.capability_index.write()
RegLockIndex(t) ==
    /\ pc[t] = "reg_lock_index"
    /\ CanWrite(indexWriter, indexReaders)
    /\ indexWriter' = t
    /\ pc' = [pc EXCEPT ![t] = "reg_index"]
    /\ UNCHANGED <<maps, agentsWriter, agentsReaders, indexReaders,
                   op, arg, agent, result, ncalls, history, registered, other>>

\* the push loop, then the guard is dropped and Ok(()) returned
RegIndex(t) ==
    /\ pc[t] = "reg_index"
    /\ index' = RegisterIndex(index, arg[t].capabilities, arg[t].id)
    /\ indexWriter' = NoThread
    /\ Finish(t, Ok(NoValue))
    /\ UNCHANGED <<agents, agentsWriter, agentsReaders, indexReaders,
                   op, arg, agent, ncalls, history, registered, other>>

\* ----------------------------------------------------------- unregister
CallUnregister(t, id) ==
    /\ Enter(t, "unregister", id, "unreg_lock_agents")
    /\ unregOverlap' = [unregOverlap EXCEPT ![t] = RegisterInProgress(id)]
    /\ seenGet' = [seenGet EXCEPT ![id] = {}]
    /\ seenFind' = seenFind \ {id}
    /\ expect' = [u \in Threads |-> IF u = t THEN {} ELSE expect[u] \ {id}]
    /\ UNCHANGED gone

UnregLockAgents(t) ==
    /\ pc[t] = "unreg_lock_agents"
    /\ CanWrite(agentsWriter, agentsReaders)
    /\ agentsWriter' = t
    /\ pc' = [pc EXCEPT ![t] = "unreg_agents"]
    /\ UNCHANGED <<maps, agentsReaders, indexWriter, indexReaders,
                   op, arg, agent, result, ncalls, history, registered, other>>

\* agents.remove(id), then the guard is dropped; `?` returns AgentNotFound at once
UnregAgents(t) ==
    /\ pc[t] = "unreg_agents"
    /\ LET r == UnregisterAgents(agents, arg[t])
       IN /\ agents' = r.agents
          /\ IF r.res.kind = "Ok"
             THEN /\ pc' = [pc EXCEPT ![t] = "unreg_lock_index"]
                  /\ agent' = [agent EXCEPT ![t] = r.res.val]
                  /\ registered' = [registered EXCEPT ![arg[t]] = {}]
                  /\ UNCHANGED result
             ELSE /\ Finish(t, r.res)
                  /\ UNCHANGED <<agent, registered>>
    /\ agentsWriter' = NoThread
    /\ UNCHANGED <<index, agentsReaders, indexWriter, indexReaders,
                   op, arg, ncalls, history, other>>

UnregLockIndex(t) ==
    /\ pc[t] = "unreg_lock_index"
    /\ CanWrite(indexWriter, indexReaders)
    /\ indexWriter' = t
    /\ pc' = [pc EXCEPT ![t] = "unreg_index"]
    /\ UNCHANGED <<maps, agentsWriter, agentsReaders, indexReaders,
                   op, arg, agent, result, ncalls, history, registered, other>>

\* the retain loop, then the guard is dropped and Ok(agent) returned
UnregIndex(t) ==
    /\ pc[t] = "unreg_index"
    /\ index' = UnregisterIndex(index, agent[t].capabilities, arg[t])
    /\ indexWriter' = NoThread
    /\ Finish(t, Ok(agent[t]))
    /\ agent' = [agent EXCEPT ![t] = NoValue]
    /\ gone' = [gone EXCEPT ![arg[t]] =
                    IF unregOverlap[t] THEN "overlapped" ELSE "clean"]
    /\ UNCHANGED <<agents, agentsWriter, agentsReaders, indexReaders,
                   op, arg, ncalls, seenGet, seenFind, expect, unregOverlap,
                   registered, other>>


\* ------------------------------------------------------------------ get
CallGet(t, id) ==
    /\ Enter(t, "get", id, "get_lock")
    /\ expect' = [expect EXCEPT ![t] = {id} \cap seenFind]
    /\ UNCHANGED <<seenGet, seenFind, unregOverlap, gone>>

\* let agents = self.agents.read()
GetLock(t) ==
    /\ pc[t] = "get_lock"
    /\ CanRead(agentsWriter, AgentsWaiting)
    /\ agentsReaders' = agentsReaders \cup {t}
    /\ pc' = [pc EXCEPT ![t] = "get_read"]
    /\ UNCHANGED <<maps, agentsWriter, indexWriter, indexReaders,
                   op, arg, agent, result, ncalls, history, registered, other>>

GetRead(t) ==
    /\ pc[t] = "get_read"
    /\ LET r == Get(agents, arg[t])
       IN /\ Finish(t, r)
          /\ seenGet' = IF r.kind = "Ok" /\ ~UnregisterInProgress(arg[t])
                        THEN [seenGet EXCEPT ![arg[t]] = @ \cup Range(r.val.capabilities)]
                        ELSE seenGet
    /\ agentsReaders' = agentsReaders \ {t}
    /\ UNCHANGED <<maps, agentsWriter, indexWriter, indexReaders,
                   op, arg, agent, ncalls, seenFind, expect, unregOverlap, gone,
                   registered, other>>

\* ------------------------- find_by_capability, get_best_for_capability
CallFind(t, cap) ==
    /\ Enter(t, "find_by_capability", cap, "find_lock_index")
    /\ expect' = [expect EXCEPT ![t] = {i \in Ids : cap \in seenGet[i]}]
    /\ UNCHANGED <<seenGet, seenFind, unregOverlap, gone>>

CallBest(t, cap) ==
    /\ Enter(t, "get_best_for_capability", cap, "find_lock_index")
    /\ expect' = [expect EXCEPT ![t] = {}]
    /\ UNCHANGED <<seenGet, seenFind, unregOverlap, gone>>

\* let index = self.capability_index.read()
FindLockIndex(t) ==
    /\ pc[t] = "find_lock_index"
    /\ CanRead(indexWriter, IndexWaiting)
    /\ indexReaders' = indexReaders \cup {t}
    /\ pc' = [pc EXCEPT ![t] = "find_lock_agents"]
    /\ UNCHANGED <<maps, agentsWriter, agentsReaders, indexWriter,
                   op, arg, agent, result, ncalls, history, registered, other>>

\* let agents = self.agents.read(), with the index guard still held
FindLockAgents(t) ==
    /\ pc[t] = "find_lock_agents"
    /\ CanRead(agentsWriter, AgentsWaiting)
    /\ agentsReaders' = agentsReaders \cup {t}
    /\ pc' = [pc EXCEPT ![t] = "find_read"]
    /\ UNCHANGED <<maps, agentsWriter, indexWriter, indexReaders,
                   op, arg, agent, result, ncalls, history, registered, other>>

\* the lookup, filter and sort under both guards; both are dropped on return
FindRead(t) ==
    /\ pc[t] = "find_read"
    /\ IF op[t] = "find_by_capability"
       THEN LET found == FindByCapability(index, agents, arg[t])
            IN /\ Finish(t, Ok(found))
               /\ seenFind' = seenFind \cup
                     {i \in {d.id : d \in Range(found)} : ~UnregisterInProgress(i)}
       ELSE /\ Finish(t, GetBestForCapability(index, agents, arg[t]))
            /\ UNCHANGED seenFind
    /\ agentsReaders' = agentsReaders \ {t}
    /\ indexReaders' = indexReaders \ {t}
    /\ UNCHANGED <<maps, agentsWriter, indexWriter,
                   op, arg, agent, ncalls, seenGet, expect, unregOverlap, gone,
                   registered, other>>

\* ------------------------------------------------------ list_ids, count
CallListIds(t) ==
    /\ Enter(t, "list_ids", NoValue, "list_lock")
    /\ expect' = [expect EXCEPT ![t] = {}]
    /\ UNCHANGED <<seenGet, seenFind, unregOverlap, gone>>

CallCount(t) ==
    /\ Enter(t, "count", NoValue, "list_lock")
    /\ expect' = [expect EXCEPT ![t] = {}]
    /\ UNCHANGED <<seenGet, seenFind, unregOverlap, gone>>

\* let agents = self.agents.read()
ListLock(t) ==
    /\ pc[t] = "list_lock"
    /\ CanRead(agentsWriter, AgentsWaiting)
    /\ agentsReaders' = agentsReaders \cup {t}
    /\ pc' = [pc EXCEPT ![t] = "list_read"]
    /\ UNCHANGED <<maps, agentsWriter, indexWriter, indexReaders,
                   op, arg, agent, result, ncalls, history, registered, other>>

ListRead(t) ==
    /\ pc[t] = "list_read"
    /\ IF op[t] = "list_ids"
       THEN \E ids \in ListIds(agents) : Finish(t, Ok(ids))
       ELSE Finish(t, Ok(Count(agents)))
    /\ agentsReaders' = agentsReaders \ {t}
    /\ UNCHANGED <<maps, agentsWriter, indexWriter, indexReaders,
                   op, arg, agent, ncalls, history, registered, other>>

\* -------------------------------------------------------- specification
Next ==
    \E t \in Threads :
        \/ \E a \in Definitions : CallRegister(t, a)
        \/ RegLockAgents(t)
        \/ RegAgents(t)
        \/ RegLockIndex(t)
        \/ RegIndex(t)
        \/ \E id \in Ids : CallUnregister(t, id)
        \/ UnregLockAgents(t)
        \/ UnregAgents(t)
        \/ UnregLockIndex(t)
        \/ UnregIndex(t)
        \/ \E id \in Ids : CallGet(t, id)
        \/ GetLock(t)
        \/ GetRead(t)
        \/ \E cap \in Caps : CallFind(t, cap)
        \/ \E cap \in Caps : CallBest(t, cap)
        \/ FindLockIndex(t)
        \/ FindLockAgents(t)
        \/ FindRead(t)
        \/ CallListIds(t)
        \/ CallCount(t)
        \/ ListLock(t)
        \/ ListRead(t)

Spec == Init /\ [][Next]_vars


\* ------------------------------------------------------------ liveness
\* The steps of thread t inside a call: each is taken by the thread itself
\* once the lock it needs is free.
Steps(t) ==
    \/ RegLockAgents(t) \/ RegAgents(t) \/ RegLockIndex(t) \/ RegIndex(t)
    \/ UnregLockAgents(t) \/ UnregAgents(t) \/ UnregLockIndex(t) \/ UnregIndex(t)
    \/ GetLock(t) \/ GetRead(t)
    \/ FindLockIndex(t) \/ FindLockAgents(t) \/ FindRead(t)
    \/ ListLock(t) \/ ListRead(t)

\* the RwLock may or may not make readers wait for waiting writers
LiveInit == InitRegistry /\ writerPref \in BOOLEAN

\* Which lock a call takes does not depend on the record's fields: one
\* identifier and one capability give every path through every operation.
LiveNext ==
    \E t \in Threads :
        \/ CallRegister(t, AgentDefinition("a", 1, <<"X">>))
        \/ RegLockAgents(t)
        \/ RegAgents(t)
        \/ RegLockIndex(t)
        \/ RegIndex(t)
        \/ CallUnregister(t, "a")
        \/ UnregLockAgents(t)
        \/ UnregAgents(t)
        \/ UnregLockIndex(t)
        \/ UnregIndex(t)
        \/ CallGet(t, "a")
        \/ GetLock(t)
        \/ GetRead(t)
        \/ CallFind(t, "X")
        \/ CallBest(t, "X")
        \/ FindLockIndex(t)
        \/ FindLockAgents(t)
        \/ FindRead(t)
        \/ CallListIds(t)
        \/ CallCount(t)
        \/ ListLock(t)
        \/ ListRead(t)

\* the scheduler runs every thread that can take a step
FairSpec == LiveInit /\ [][LiveNext]_vars /\ \A t \in Threads : WF_vars(Steps(t))

\* ------------------------------------------- calls that do not overlap
\* register(agent) run from entry to return with no other call in between
RegisterCall(ag, idx, defn) ==
    LET r == RegisterAgents(ag, defn)
    IN IF r.res.kind = "Ok"
       THEN [res |-> Ok(NoValue), agents |-> r.agents,
             index |-> RegisterIndex(idx, defn.capabilities, defn.id)]
       ELSE [res |-> r.res, agents |-> r.agents, index |-> idx]

\* unregister(id) run from entry to return with no other call in between
UnregisterCall(ag, idx, id) ==
    LET r == UnregisterAgents(ag, id)
    IN IF r.res.kind = "Ok"
       THEN [res |-> Ok(r.res.val), agents |-> r.agents,
             index |-> UnregisterIndex(idx, r.res.val.capabilities, id)]
       ELSE [res |-> r.res, agents |-> r.agents, index |-> idx]

\* The atomic reference registry of C20: one map, every call one step, and
\* bucket c the set of the registered identifiers holding c.
RefRegister(ra, defn) ==
    IF defn.id \in DOMAIN ra
    THEN [res |-> AgentAlreadyExists, agents |-> ra]
    ELSE [res |-> Ok(NoValue), agents |-> ra @@ (defn.id :> defn)]

RefUnregister(ra, id) ==
    IF id \in DOMAIN ra
    THEN [res |-> Ok(ra[id]), agents |-> [k \in DOMAIN ra \ {id} |-> ra[k]]]
    ELSE [res |-> AgentNotFound, agents |-> ra]

RefBucket(ra, c) == {i \in DOMAIN ra : c \in Range(ra[i].capabilities)}
RefFind(ra, c) == {ra[i] : i \in RefBucket(ra, c)}

seqFrame == <<locks, pc, arg, agent, ncalls, history, registered, writerPref>>

\* one caller, one call after another, on the first registry and on the
\* reference registry alike
SeqRegister(defn) ==
    /\ LET r == RegisterCall(agents, index, defn)
           rr == RefRegister(refAgents, defn)
       IN /\ agents' = r.agents
          /\ index' = r.index
          /\ result' = [result EXCEPT ![1] = r.res]
          /\ refAgents' = rr.agents
          /\ refResult' = rr.res
    /\ op' = [op EXCEPT ![1] = "register"]
    /\ UNCHANGED <<seqFrame, agents2, index2>>

SeqUnregister(id) ==
    /\ LET r == UnregisterCall(agents, index, id)
           rr == RefUnregister(refAgents, id)
       IN /\ agents' = r.agents
          /\ index' = r.index
          /\ result' = [result EXCEPT ![1] = r.res]
          /\ refAgents' = rr.agents
          /\ refResult' = rr.res
    /\ op' = [op EXCEPT ![1] = "unregister"]
    /\ UNCHANGED <<seqFrame, agents2, index2>>

\* the same calls on a second registry, with a history of its own
SeqRegister2(defn) ==
    /\ LET r == RegisterCall(agents2, index2, defn)
       IN /\ agents2' = r.agents
          /\ index2' = r.index
    /\ UNCHANGED <<seqFrame, maps, op, result, refAgents, refResult>>

SeqUnregister2(id) ==
    /\ LET r == UnregisterCall(agents2, index2, id)
       IN /\ agents2' = r.agents
          /\ index2' = r.index
    /\ UNCHANGED <<seqFrame, maps, op, result, refAgents, refResult>>

SeqNext ==
    \/ \E a \in Definitions : SeqRegister(a)
    \/ \E id \in Ids : SeqUnregister(id)
    \/ \E a \in Definitions : SeqRegister2(a)
    \/ \E id \in Ids : SeqUnregister2(id)

SpecSeq == Init /\ [][SeqNext]_vars

\* ------------------------------------------------------ claims' vocabulary
IdsOf(found) == {d.id : d \in Range(found)}

\* no identifier sits in a bucket while absent from the primary map
BucketIdsRegistered ==
    \A c \in DOMAIN index : \A i \in Range(index[c]) : i \in DOMAIN agents

\* no registered identifier with c in its list is missing from bucket c
RegisteredIdsIndexed ==
    \A i \in DOMAIN agents : \A c \in Range(agents[i].capabilities) :
        c \in DOMAIN index /\ i \in Range(index[c])

NoWriterHoldsLock == agentsWriter = NoThread /\ indexWriter = NoThread

\* every call made so far is a register, at most one per thread
OnlyRegisters ==
    \A t \in Threads : ncalls[t] <= 1 /\ (ncalls[t] = 1 => op[t] = "register")

Registering(i) == {t \in Threads : op[t] = "register" /\ arg[t].id = i}
Callers == {t \in Threads : ncalls[t] > 0}

\* what the reads return for id when taken in the current state
Absent(i) ==
    /\ Get(agents, i).kind = "AgentNotFound"
    /\ \A ids \in ListIds(agents) : i \notin Range(ids)
    /\ \A c \in Caps : i \notin IdsOf(FindByCapability(index, agents, c))

IsAscending(found) ==
    \A k \in 1..(Len(found) - 1) : found[k].priority <= found[k + 1].priority

\* ---------------------------------------------------------------- claims

\* C1: in every state another thread can observe (no mutating call holds a
\* lock, the point between a call's primary-map step and its index step
\* included) the two maps agree in both directions.
C1_ObservableMapsAgree ==
    NoWriterHoldsLock => (BucketIdsRegistered /\ RegisteredIdsIndexed)

\* C2: once every concurrent register and unregister call has returned, every
\* identifier found in a capability bucket is present in the primary map.
C2_QuiescentBucketsRegistered ==
    Quiescent => BucketIdsRegistered

\* C3: a find_by_capability(c) started after a get(id) returned a definition
\* holding c includes id, and a get(id) started after a find_by_capability
\* returned id succeeds, no unregister(id) having been started or in progress.
C3_ReadsAgreeAcrossMaps ==
    \A t \in Threads :
        /\ (~Busy(t) /\ op[t] = "find_by_capability")
              => expect[t] \subseteq IdsOf(result[t].val)
        /\ (~Busy(t) /\ op[t] = "get" /\ expect[t] # {})
              => result[t].kind = "Ok"

\* C4: of the threads that concurrently register the same identifier on a
\* registry without it, exactly one gets Ok and every other AgentAlreadyExists.
C4_OneRegisterWins ==
    OnlyRegisters =>
        \A i \in Ids :
            LET done == {t \in Registering(i) : ~Busy(t)}
                won == {t \in done : result[t].kind = "Ok"}
            IN /\ Cardinality(won) <= 1
               /\ \A t \in done \ won : result[t].kind = "AgentAlreadyExists"
               /\ (done = Registering(i) /\ done # {}) => Cardinality(won) = 1
               /\ won # {} => i \in DOMAIN agents

C4_Witness ==
    /\ OnlyRegisters
    /\ Quiescent
    /\ \E i \in Ids : Cardinality(Registering(i)) >= 2

\* C5: concurrent register calls with pairwise distinct identifiers on an empty
\* registry all return Ok, and once all have returned count() is their number.
C5_DistinctRegistersSucceed ==
    (OnlyRegisters /\ \A i \in Ids : Cardinality(Registering(i)) <= 1) =>
        /\ \A t \in Callers : ~Busy(t) => result[t].kind = "Ok"
        /\ Quiescent => Count(agents) = Cardinality(Callers)

C5_Witness ==
    /\ OnlyRegisters
    /\ \A i \in Ids : Cardinality(Registering(i)) <= 1
    /\ Quiescent
    /\ Cardinality(Callers) >= 2

\* C6: a register whose identifier is present when it is checked returns
\* AgentAlreadyExists and changes neither map; get(id) returns the same record.
C6_RejectedRegisterChangesNothing ==
    [][\A t \in Threads :
          (pc[t] = "reg_agents" /\ pc'[t] # "reg_agents"
              /\ arg[t].id \in DOMAIN agents)
          => /\ pc'[t] = "idle"
             /\ result'[t].kind = "AgentAlreadyExists"
             /\ agents' = agents
             /\ index' = index
             /\ Get(agents', arg[t].id) = Get(agents, arg[t].id)]_vars

C6_Witness ==
    \E t \in Threads :
        /\ ~Busy(t) /\ op[t] = "register"
        /\ result[t].kind = "AgentAlreadyExists"
        /\ arg[t].id \in DOMAIN agents
        /\ agents[arg[t].id].priority # arg[t].priority
        /\ agents[arg[t].id].capabilities # arg[t].capabilities

\* C7: an unregister whose identifier is absent from the primary map returns
\* AgentNotFound and leaves count() and every capability bucket as they were.
C7_UnknownUnregisterChangesNothing ==
    [][\A t \in Threads :
          (pc[t] = "unreg_agents" /\ pc'[t] # "unreg_agents"
              /\ arg[t] \notin DOMAIN agents)
          => /\ pc'[t] = "idle"
             /\ result'[t].kind = "AgentNotFound"
             /\ agents' = agents
             /\ Count(agents') = Count(agents)
             /\ index' = index]_vars

C7_Witness ==
    \E t \in Threads :
        /\ ~Busy(t) /\ op[t] = "unregister"
        /\ result[t].kind = "AgentNotFound"
        /\ agents # EmptyMap
        /\ \E c \in DOMAIN index : index[c] # <<>>

\* C8 as stated: after unregister(id) has returned Ok and until a later
\* register(id) call starts, get(id) is AgentNotFound, list_ids() lacks id and
\* no find_by_capability(c) includes id.
C8_UnregisteredIsAbsent ==
    \A i \in Ids : gone[i] # "no" => Absent(i)

\* C8 amended: the same, for an unregister(id) call during which no
\* register(id) call was in progress.
C8_CleanlyUnregisteredIsAbsent ==
    \A i \in Ids : gone[i] = "clean" => Absent(i)

C8_Witness ==
    \E t \in Threads :
        /\ ~Busy(t) /\ op[t] = "unregister"
        /\ result[t].kind = "Ok"
        /\ result[t].val.capabilities # <<>>
        /\ gone[arg[t]] = "clean"

\* C9: once the register and unregister calls made have completed,
\* find_by_capability(c) returns exactly the registered definitions whose
\* capability list contains c.
C9_FindReturnsExactlyHolders ==
    Quiescent =>
        \A c \in Caps :
            Range(FindByCapability(index, agents, c))
                = {agents[i] : i \in {j \in DOMAIN agents : has_capability(agents[j], c)}}

\* C10: what find_by_capability(c) returns is ascending by priority, whatever
\* the order of registration.
C10_FindIsAscending ==
    /\ \A c \in Caps : IsAscending(FindByCapability(index, agents, c))
    /\ \A t \in Threads :
          (~Busy(t) /\ op[t] = "find_by_capability") => IsAscending(result[t].val)

C10_Witness ==
    \E t \in Threads :
        /\ ~Busy(t) /\ op[t] = "find_by_capability"
        /\ Len(result[t].val) = 2
        /\ result[t].val[1].priority < result[t].val[2].priority
        /\ arg[t] \in DOMAIN index
        /\ Len(index[arg[t]]) = 2
        /\ index[arg[t]][1] = result[t].val[2].id

\* C11: in every registry state and for every capability,
\* get_best_for_capability returns the first element of what
\* find_by_capability returns there, and AgentNotFound exactly when that
\* sequence is empty.
C11_BestIsFirstOfFind ==
    \A c \in Caps :
        LET found == FindByCapability(index, agents, c)
            best == GetBestForCapability(index, agents, c)
        IN /\ (best.kind = "AgentNotFound") <=> (found = <<>>)
           /\ found # <<>> => (best.kind = "Ok" /\ best.val = found[1])

C11_Witness ==
    \E t \in Threads :
        /\ ~Busy(t) /\ op[t] = "get_best_for_capability"
        /\ result[t].kind = "Ok"
        /\ Len(FindByCapability(index, agents, arg[t])) = 2
        /\ result[t].val = FindByCapability(index, agents, arg[t])[1]
        /\ result[t].val.id # index[arg[t]][1]

\* C12: for every identifier put in by a register call and not taken out by
\* an unregister call since, get(id) returns a definition equal field for
\* field to the one passed to that register call, whatever else ran.
C12_GetReturnsWhatWasRegistered ==
    \A i \in Ids :
        registered[i] # {} =>
            /\ Get(agents, i).kind = "Ok"
            /\ registered[i] = {Get(agents, i).val}

C12_Witness ==
    \E t, u \in Threads :
        /\ ~Busy(t) /\ op[t] = "get" /\ result[t].kind = "Ok"
        /\ registered[arg[t]] = {result[t].val}
        /\ ~Busy(u) /\ op[u] = "register" /\ arg[u].id = arg[t]
        /\ result[u].kind = "AgentAlreadyExists"
        /\ arg[u] # result[t].val

\* the bucket of c, empty when the index has no entry for c
Bucket(idx, c) == IF c \in DOMAIN idx THEN idx[c] ELSE <<>>

\* records of equal priority come in the order their identifiers have in bucket c
TiesInBucketOrder(idx, ag, c) ==
    \A p \in 1..MaxPriority :
        SelectSeq(FindByCapability(idx, ag, c), LAMBDA d : d.priority = p)
            = SelectSeq(FilterMap(Bucket(idx, c), ag), LAMBDA d : d.priority = p)

C16_OneEntryPerCapability ==
    \A c \in Caps :
        /\ \A i \in Ids :
              Cardinality({k \in DOMAIN Bucket(index, c) : Bucket(index, c)[k] = i}) <= 1
        /\ LET found == FindByCapability(index, agents, c)
           IN Cardinality(Range(found)) = Len(found)

\* C20: when calls do not overlap the registry returns what the atomic
\* reference registry returns: the call itself, then get, find_by_capability
\* (as a set), list_ids (as a set) and count; and the two maps agree.
C20_RefinesAtomicRegistry ==
    /\ result[1].kind = refResult.kind
    /\ (op[1] = "unregister" /\ refResult.kind = "Ok") => result[1].val = refResult.val
    /\ \A i \in Ids :
          /\ (i \in DOMAIN refAgents) <=> (Get(agents, i).kind = "Ok")
          /\ i \in DOMAIN refAgents => Get(agents, i).val = refAgents[i]
    /\ \A c \in Caps : Range(FindByCapability(index, agents, c)) = RefFind(refAgents, c)
    /\ \A ids \in ListIds(agents) : Range(ids) = DOMAIN refAgents
    /\ Count(agents) = Cardinality(DOMAIN refAgents)
    /\ BucketIdsRegistered
    /\ RegisteredIdsIndexed

C20_Witness ==
    /\ op[1] = "unregister" /\ result[1].kind = "Ok"
    /\ \E c \in Caps :
          /\ c \in Range(result[1].val.capabilities)
          /\ FindByCapability(index, agents, c) # <<>>
    /\ \E c \in DOMAIN index : index[c] = <<>>
    /\ Cardinality(DOMAIN refAgents) = 1

\* C14: find_by_capability(c) returns an empty sequence, and no error,
\* whenever no registered record holds c: c never used, or every record that
\* held c unregistered.
C14_EmptyWhenNoHolder ==
    Quiescent =>
        \A c \in Caps :
            (\A i \in DOMAIN agents : ~has_capability(agents[i], c))
                => FindByCapability(index, agents, c) = <<>>

\* a call between its first and its last write to the maps: the primary map
\* is updated and an update of the capability index is still to come
MidMutation(t) ==
    \/ pc[t] \in {"reg_lock_index", "reg_index"} /\ arg[t].capabilities # <<>>
    \/ pc[t] \in {"unreg_lock_index", "unreg_index"} /\ agent[t].capabilities # <<>>

\* C15: at no time are two register/unregister calls both between their
\* first and their last write to the maps.
C15_WritersExclusive ==
    Cardinality({t \in Threads : MidMutation(t)}) <= 1

\* C18: every definition a find_by_capability call returns is in the primary
\* map at the moment the call holds its two read locks; an identifier left in
\* a bucket by an unregister that has not cleaned the index yet is not returned.
C18_FindReturnsOnlyRegistered ==
    [][\A t \in Threads :
          (pc[t] = "find_read" /\ pc'[t] = "idle" /\ op[t] = "find_by_capability")
          => \A d \in Range(result'[t].val) :
                d.id \in DOMAIN agents /\ agents[d.id] = d]_vars

C18_Witness ==
    \E t, u \in Threads :
        /\ ~Busy(t) /\ op[t] = "find_by_capability"
        /\ pc[u] = "unreg_lock_index"
        /\ arg[u] \in Range(Bucket(index, arg[t]))
        /\ arg[u] \notin DOMAIN agents
        /\ arg[u] \notin IdsOf(result[t].val)

\* the step in which a register or unregister call writes to a map
WriteStep(t) ==
    /\ pc[t] \in {"reg_agents", "reg_index", "unreg_agents", "unreg_index"}
    /\ pc'[t] # pc[t]

CallId(t) == IF op[t] = "register" THEN arg[t].id ELSE arg[t]

Others(ids, id) == SelectSeq(ids, LAMBDA i : i # id)

\* C19: a register(id) or unregister(id) changes only what belongs to id:
\* the other identifiers' records stay, every bucket keeps the other
\* identifiers' entries in the same order, and unregister touches only the
\* buckets named in id's capability list. No other step changes a map.
C19_OnlyOwnEntriesChange ==
    [][/\ \A t \in Threads :
             WriteStep(t) =>
                /\ \A j \in Ids \ {CallId(t)} :
                      /\ (j \in DOMAIN agents') <=> (j \in DOMAIN agents)
                      /\ j \in DOMAIN agents => agents'[j] = agents[j]
                /\ \A c \in Caps :
                      Others(Bucket(index', c), CallId(t)) = Others(Bucket(index, c), CallId(t))
                /\ pc[t] = "unreg_index" =>
                      \A c \in Caps \ Range(agent[t].capabilities) :
                          Bucket(index', c) = Bucket(index, c)
       /\ (\A t \in Threads : ~WriteStep(t)) => (agents' = agents /\ index' = index)
      ]_vars

C19_Witness ==
    \E t \in Threads :
        /\ ~Busy(t) /\ op[t] = "unregister" /\ result[t].kind = "Ok"
        /\ \E c \in Range(result[t].val.capabilities) :
              /\ Bucket(index, c) # <<>>
              /\ arg[t] \notin Range(Bucket(index, c))
        /\ agents # EmptyMap

\* C17: under fair scheduling every call of every operation returns: the
\* order in which the locks are taken admits no deadlock.
C17_EveryCallReturns ==
    \A t \in Threads : Busy(t) ~> ~Busy(t)

\* a find_by_capability holds the index read guard and has yet to take the
\* agents guard, while a register waits for the index write guard
C17_Witness ==
    \E t, u \in Threads :
        /\ writerPref
        /\ pc[t] = "find_lock_agents" /\ t \in indexReaders
        /\ pc[u] = "reg_lock_index"

====
